---- MODULE Spec2Model ----
(***************************************************************************)
(* Model of drone_monitoring.py, a Streamlit script.                       *)
(*                                                                         *)
(* Execution model.  The script is executed top to bottom ("a run") each   *)
(* time the operator changes a widget; st.session_state survives between   *)
(* runs, the script's local names do not.  A button returns True only in   *)
(* the run its click asked for.  A widget change that arrives while a run  *)
(* is in progress is kept as a pending rerun request; the run in progress  *)
(* is abandoned at its next yield point (every st.* element call and every *)
(* st.session_state access is one) and the script starts again from the    *)
(* top with the widget values of the request.  Button clicks of requests   *)
(* that are still pending are merged; the clicks of the abandoned run are  *)
(* gone.  Elements drawn by an earlier run stay on the page until a run    *)
(* that finishes replaces them, so the "View Surveillance Video" button of *)
(* an earlier run can be clicked while a later run is counting down.       *)
(*                                                                         *)
(* Every step below starts at a yield point and nothing the run does       *)
(* between the arrival of a request and its next yield point is visible    *)
(* (it sleeps, or computes on locals), so the arrival of a request and the *)
(* abandoning of the run in progress are one step.                         *)
(*                                                                         *)
(* pc is the line of the script the current run is about to execute;       *)
(* pc = "idle" after a run that reached the end of the script, "stopped"   *)
(* after a run that was abandoned.                                         *)
(***************************************************************************)
EXTENDS Integers, Sequences, FiniteSets, TLC

VARIABLES
    csv,                  \* threat_level column of drone_anomaly_actions.csv
    cache,                \* st.cache_data store of load_drone_anomalies
    map_data,             \* rows of map_data: threat_level and weight
    session_state,        \* st.session_state: key -> value
    coa_radio,            \* page: "Choose a COA to execute" radio
    layer_radio,          \* page: "Select Map Layer" radio
    widgets,              \* page: the widgets drawn, by name
    layer,                \* page: the layer of the pydeck chart drawn (lines 84-122)
    surveillance_video,   \* page: the "Suspicious Activity Detected" video is drawn
    pending,              \* a rerun request waits for the next yield point
    execute_clicked,      \* the current (or pending) run carries an Execute click
    reveal_clicked,       \* the current (or pending) run carries a View click
    toggled,              \* the current (or pending) run was asked for by a toggle of
                          \* the map layer and by nothing else
    pc,                   \* position of the current run
    layer_option,         \* local of the run (line 79)
    chosen_coa,           \* local of the run (line 141)
    remaining_time,       \* loop variable of the countdown (line 207)
    countdown_placeholder, \* local of the run (line 204): what its placeholder shows
    operator_present,     \* the operator is still at the console
    ticks,                \* history: ticks since the last reset or countdown start
    warnings,             \* history: warnings drawn since the last completed reset
    countdown,            \* history: fate of the countdown started last
    reveal_early,         \* history: the View click carried was made during a countdown,
                          \*          with alert_triggered false
    before                \* history: workflow flags when the reset in progress began

vars == <<csv, cache, map_data, session_state, coa_radio, layer_radio, widgets, layer,
          surveillance_video, pending, execute_clicked,
          reveal_clicked, toggled, pc, layer_option, chosen_coa, remaining_time,
          countdown_placeholder, operator_present, ticks, warnings, countdown, reveal_early, before>>

dataVars == <<csv, cache, map_data>>
pageVars == <<coa_radio, layer_radio, widgets, layer, surveillance_video>>
requestVars == <<pending, execute_clicked, reveal_clicked, toggled, reveal_early>>
localVars == <<layer_option, chosen_coa, remaining_time, countdown_placeholder>>
historyVars == <<ticks, warnings, countdown, before>>

----------------------------------------------------------------------------
\* Bounds of the model

MaxRows == 3

MaxWarnings == 2

----------------------------------------------------------------------------
\* Program constants and reference data

None == "None"

COAs == {"COA 1", "COA 2", "COA 3"}

LayerOptions == {"Heatmap", "Scatterplot"}

HeadRows == 100

CountdownTicks == 10

ThreatLevels == {"High", "Medium", "Low"}

\* the csv is outside the program: it may hold a level the program does not know
CsvLevels == ThreatLevels \cup {"Critical"}

CsvContents == UNION {[1..n -> CsvLevels] : n \in 0..MaxRows}

Min(a, b) == IF a < b THEN a ELSE b

\* the levels of a file of n rows that is too long to enumerate: a fixed pattern,
\* repeated, so that a row dropped or moved shows
LongCsv(n) ==
    [i \in 1..n |-> CASE i % 4 = 1 -> "Critical" [] i % 4 = 2 -> "High"
                       [] i % 4 = 3 -> "Low" [] OTHER -> "Medium"]

\* files around the cap of line 13: one row short of it, at it, and beyond it
LongFiles == {LongCsv(n) : n \in {HeadRows - 1, HeadRows, HeadRows + 1, HeadRows + MaxRows}}

\* the files a session may start with
CsvFiles == CsvContents \cup LongFiles

\* the files the one on disk may be replaced with while the program runs
SourceVersions == {<<>>, <<"Low", "High">>, LongCsv(HeadRows + 1)}

----------------------------------------------------------------------------
\* Data loading and threat encoding (lines 10-26, 84-107)

\* .head(101): the cap is off by one
headOffByOne(rows) == SubSeq(rows, 1, Min(HeadRows + 1, Len(rows)))

\* pd.read_csv(path).head(100): the first HeadRows rows, in order
head(rows) == SubSeq(rows, 1, Min(HeadRows, Len(rows)))

\* the function without its @st.cache_data decorator: every call reads the file
load_drone_anomaliesUncached == head(csv)

\* @st.cache_data: the first call reads the file, later calls return what it stored
load_drone_anomalies == IF cache.hit THEN cache.value ELSE head(csv)

\* a float cell of the weight column: a number or NaN
Num(n) == [nan |-> FALSE, value |-> n]

NaN == [nan |-> TRUE, value |-> 0]

threat_level_weights == [l \in ThreatLevels |->
                           CASE l = "High" -> 3 [] l = "Medium" -> 2 [] l = "Low" -> 1]

\* Series.map(dict): a key the dict lacks maps to NaN
weight(threat_level) ==
    IF threat_level \in DOMAIN threat_level_weights
    THEN Num(threat_level_weights[threat_level])
    ELSE NaN

\* the conditional expression without its Medium branch
get_colorTwoWay(threat_level) ==
    IF threat_level = "High" THEN "255, 0, 0, 160" ELSE "0, 128, 0, 160"

\* the conditional expression of get_color
get_color(threat_level) ==
    IF threat_level = "High" THEN "255, 0, 0, 160"
    ELSE IF threat_level = "Medium" THEN "255, 165, 0, 160"
    ELSE "0, 128, 0, 160"

\* map_data = drone_anomalies.copy() with the weight column added
MapData(drone_anomalies) ==
    [i \in 1..Len(drone_anomalies) |->
        [threat_level |-> drone_anomalies[i], weight |-> weight(drone_anomalies[i])]]

NoLayer == [type |-> "none", data |-> <<>>, get_weight |-> <<>>, get_color |-> <<>>]

HeatmapLayer(data) ==
    [type |-> "HeatmapLayer", data |-> data,
     get_weight |-> [i \in 1..Len(data) |-> data[i].weight], get_color |-> <<>>]

ScatterplotLayer(data) ==
    [type |-> "ScatterplotLayer", data |-> data, get_weight |-> <<>>,
     get_color |-> [i \in 1..Len(data) |-> get_color(data[i].threat_level)]]

BuildLayer(option, data) ==
    IF option = "Heatmap" THEN HeatmapLayer(data) ELSE ScatterplotLayer(data)

----------------------------------------------------------------------------
\* st.session_state

Has(key) == key \in DOMAIN session_state

\* st.session_state.key = value
Store(key, value) ==
    [k \in DOMAIN session_state \cup {key} |-> IF k = key THEN value ELSE session_state[k]]

\* st.session_state.get("coa_selected"): None when the key is missing
coa_selected == IF Has("coa_selected") THEN session_state["coa_selected"] ELSE None

alert_triggered == Has("alert_triggered") /\ session_state["alert_triggered"]

show_surveillance == Has("show_surveillance") /\ session_state["show_surveillance"]

\* WorkflowState of the specification
WorkflowState == <<coa_selected, alert_triggered, show_surveillance>>

SessionKeys == {"alert_triggered", "show_surveillance", "coa_selected"}

NoBefore == <<None, FALSE, FALSE>>

Running == pc \notin {"idle", "stopped"}

\* the program waits for the operator: no run in progress, no request pending
Quiescent == pc = "idle" /\ ~pending

At(line) == pc = line

----------------------------------------------------------------------------
\* The session starts: nothing is stored or drawn yet and the first run begins

InitWith(contents) ==
    /\ csv \in contents
    /\ cache = [hit |-> FALSE, value |-> <<>>]
    /\ map_data = <<>>
    /\ session_state = [k \in {} |-> FALSE]
    /\ coa_radio = "COA 1"
    /\ layer_radio = "Heatmap"
    /\ widgets = {}
    /\ layer = NoLayer
    /\ surveillance_video = FALSE
    /\ pending = FALSE
    /\ execute_clicked = FALSE
    /\ reveal_clicked = FALSE
    /\ toggled = FALSE
    /\ pc = "L19"
    /\ layer_option = None
    /\ chosen_coa = None
    /\ remaining_time = 0
    /\ countdown_placeholder = None
    /\ operator_present = TRUE
    /\ ticks = 0
    /\ warnings = 0
    /\ countdown = "none"
    /\ reveal_early = FALSE
    /\ before = NoBefore

\* a file with a level of each kind, cut to the rows the model carries
SampleCsv == SubSeq(<<"Critical", "High", "Low", "Medium">>, 1, MaxRows)

Init == InitWith({SampleCsv})

----------------------------------------------------------------------------
\* The steps of one run of the script, in program order

\* lines 19-26: load (through the cache) and add the weight column
LoadData ==
    /\ At("L19")
    /\ cache' = [hit |-> TRUE, value |-> load_drone_anomalies]
    /\ map_data' = MapData(load_drone_anomalies)
    /\ pc' = "L45"
    /\ UNCHANGED <<csv, session_state, pageVars, requestVars, localVars,
                   operator_present, historyVars>>

\* the defaults assigned without the "not in st.session_state" tests
SessionStateInitUnguarded ==
    /\ At("L45")
    /\ session_state' = [k \in SessionKeys |-> IF k = "coa_selected" THEN None ELSE FALSE]
    /\ pc' = "L79"
    /\ UNCHANGED <<dataVars, pageVars, requestVars, localVars, operator_present, historyVars>>

\* lines 44-52: each key gets its default only if the session does not hold it
SessionStateInit ==
    /\ At("L45")
    /\ session_state' =
          [k \in DOMAIN session_state \cup SessionKeys |->
              IF k \in DOMAIN session_state THEN session_state[k]
              ELSE IF k = "coa_selected" THEN None ELSE FALSE]
    /\ pc' = "L79"
    /\ UNCHANGED <<dataVars, pageVars, requestVars, localVars, operator_present, historyVars>>

\* lines 78-122: the layer radio is read and the chart is drawn with the layer it selects
MapLayer ==
    /\ At("L79")
    /\ layer_option' = layer_radio
    /\ layer' = BuildLayer(layer_radio, map_data)
    /\ widgets' = widgets \cup {"layer"}
    /\ pc' = "L141"
    /\ UNCHANGED <<dataVars, session_state, coa_radio, layer_radio,
                   surveillance_video, requestVars, chosen_coa, remaining_time,
                   countdown_placeholder, operator_present, historyVars>>

\* lines 124-141: the COA table and the COA radio
ChooseCOA ==
    /\ At("L141")
    /\ chosen_coa' = coa_radio
    /\ widgets' = widgets \cup {"coa"}
    /\ pc' = "L144"
    /\ UNCHANGED <<dataVars, session_state, coa_radio, layer_radio, layer,
                   surveillance_video, requestVars, layer_option,
                   remaining_time, countdown_placeholder, operator_present, historyVars>>

\* line 144: st.button("Execute Selected COA") is True in the run its click asked for
ExecuteButton ==
    /\ At("L144")
    /\ widgets' = widgets \cup {"execute"}
    /\ pc' = IF execute_clicked THEN "L145" ELSE "L195"
    /\ before' = IF execute_clicked THEN WorkflowState ELSE before
    /\ UNCHANGED <<dataVars, session_state, coa_radio, layer_radio, layer,
                   surveillance_video, requestVars, localVars,
                   operator_present, ticks, warnings, countdown>>

\* line 145
SetCoaSelected ==
    /\ At("L145")
    /\ session_state' = Store("coa_selected", chosen_coa)
    /\ pc' = "L146"
    /\ ticks' = 0
    /\ UNCHANGED <<dataVars, pageVars, requestVars, localVars, operator_present,
                   warnings, countdown, before>>

\* a reset that forgets the alert flag
ResetAlertSkipped ==
    /\ At("L146")
    /\ pc' = "L147"
    /\ ticks' = 0
    /\ UNCHANGED <<dataVars, session_state, pageVars, requestVars, localVars,
                   operator_present, warnings, countdown, before>>

\* line 146
ResetAlert ==
    /\ At("L146")
    /\ session_state' = Store("alert_triggered", FALSE)
    /\ pc' = "L147"
    /\ ticks' = 0
    /\ UNCHANGED <<dataVars, pageVars, requestVars, localVars, operator_present,
                   warnings, countdown, before>>

\* a reset that forgets the surveillance flag
ResetSurveillanceSkipped ==
    /\ At("L147")
    /\ pc' = "L148"
    /\ ticks' = 0
    /\ warnings' = 0
    /\ UNCHANGED <<dataVars, session_state, pageVars, requestVars, localVars,
                   operator_present, countdown, before>>

\* line 147
ResetSurveillance ==
    /\ At("L147")
    /\ session_state' = Store("show_surveillance", FALSE)
    /\ pc' = "L148"
    /\ ticks' = 0
    /\ warnings' = 0
    /\ UNCHANGED <<dataVars, pageVars, requestVars, localVars, operator_present,
                   countdown, before>>

\* line 148, and the static right panel (lines 150-192)
ExecSuccess ==
    /\ At("L148")
    /\ pc' = "L195"
    /\ before' = NoBefore
    /\ UNCHANGED <<dataVars, session_state, pageVars, requestVars, localVars,
                   operator_present, ticks, warnings, countdown>>

\* a run that reaches the end of the script: its clicks are spent, its locals are gone
RunEnds ==
    /\ pc' = "idle"
    /\ execute_clicked' = FALSE
    /\ reveal_clicked' = FALSE
    /\ reveal_early' = FALSE
    /\ toggled' = FALSE
    /\ layer_option' = None
    /\ chosen_coa' = None
    /\ remaining_time' = 0
    /\ countdown_placeholder' = None
    /\ UNCHANGED pending

\* range(9, 0, -1): the countdown starts one tick short
MonitoringGateNineTicks ==
    /\ At("L195")
    /\ IF coa_selected # None
       THEN /\ pc' = "L207"
            /\ remaining_time' = CountdownTicks - 1
            /\ countdown_placeholder' = "empty"
            /\ ticks' = 0
            /\ countdown' = "running"
            /\ UNCHANGED <<widgets, surveillance_video, requestVars, layer_option, chosen_coa>>
       ELSE /\ RunEnds
            /\ widgets' = widgets \ {"view"}
            /\ surveillance_video' = FALSE
            /\ UNCHANGED <<ticks, countdown>>
    /\ UNCHANGED <<dataVars, session_state, coa_radio, layer_radio, layer,
                   operator_present, warnings, before>>

\* the countdown guarded by "if not st.session_state.alert_triggered": a run that finds
\* the alert set goes straight to the warning
MonitoringGateSkipsWhenAlerted ==
    /\ At("L195")
    /\ IF coa_selected # None
       THEN /\ pc' = IF alert_triggered THEN "L215" ELSE "L207"
            /\ remaining_time' = IF alert_triggered THEN 0 ELSE CountdownTicks
            /\ countdown_placeholder' = "empty"
            /\ ticks' = 0
            /\ countdown' = IF alert_triggered THEN countdown ELSE "running"
            /\ UNCHANGED <<widgets, surveillance_video, requestVars, layer_option, chosen_coa>>
       ELSE /\ RunEnds
            /\ widgets' = widgets \ {"view"}
            /\ surveillance_video' = FALSE
            /\ UNCHANGED <<ticks, countdown>>
    /\ UNCHANGED <<dataVars, session_state, coa_radio, layer_radio, layer,
                   operator_present, warnings, before>>

\* lines 195-204: with a COA selected the monitoring block runs and the countdown starts;
\* without one the script ends here and the elements of the block are not on the page
MonitoringGate ==
    /\ At("L195")
    /\ IF coa_selected # None
       THEN /\ pc' = "L207"
            /\ remaining_time' = CountdownTicks
            /\ countdown_placeholder' = "empty"
            /\ ticks' = 0
            /\ countdown' = "running"
            /\ UNCHANGED <<widgets, surveillance_video, requestVars, layer_option, chosen_coa>>
       ELSE /\ RunEnds
            /\ widgets' = widgets \ {"view"}
            /\ surveillance_video' = FALSE
            /\ UNCHANGED <<ticks, countdown>>
    /\ UNCHANGED <<dataVars, session_state, coa_radio, layer_radio, layer,
                   operator_present, warnings, before>>

\* range(10, 1, -1): the loop ends one tick early
CountdownTickOffByOne ==
    /\ At("L207")
    /\ remaining_time > 0
    /\ remaining_time' = remaining_time - 1
    /\ countdown_placeholder' = "info"
    /\ ticks' = Min(ticks + 1, CountdownTicks)
    /\ pc' = IF remaining_time' <= 1 THEN "L212" ELSE "L207"
    /\ countdown' = IF remaining_time' <= 1 THEN "done" ELSE "running"
    /\ UNCHANGED <<dataVars, session_state, coa_radio, layer_radio, widgets, layer,
                   surveillance_video, requestVars, layer_option, chosen_coa,
                   operator_present, warnings, before>>

\* line 212 indented into the loop: the alert is raised by the last iteration
CountdownTickRaisesAlert ==
    /\ At("L207")
    /\ remaining_time > 0
    /\ remaining_time' = remaining_time - 1
    /\ countdown_placeholder' = "info"
    /\ ticks' = Min(ticks + 1, CountdownTicks)
    /\ session_state' = IF remaining_time' = 0 THEN Store("alert_triggered", TRUE)
                        ELSE session_state
    /\ pc' = IF remaining_time' = 0 THEN "L215" ELSE "L207"
    /\ countdown' = IF remaining_time' = 0 THEN "done" ELSE "running"
    /\ UNCHANGED <<dataVars, coa_radio, layer_radio, widgets, layer,
                   surveillance_video, requestVars, layer_option, chosen_coa,
                   operator_present, warnings, before>>

\* lines 207-209: one iteration of for remaining_time in range(10, 0, -1);
\* remaining_time counts the iterations still to run
CountdownTick ==
    /\ At("L207")
    /\ remaining_time > 0
    /\ remaining_time' = remaining_time - 1
    /\ countdown_placeholder' = "info"
    /\ ticks' = Min(ticks + 1, CountdownTicks)
    /\ pc' = IF remaining_time' = 0 THEN "L212" ELSE "L207"
    /\ countdown' = IF remaining_time' = 0 THEN "done" ELSE "running"
    /\ UNCHANGED <<dataVars, session_state, coa_radio, layer_radio, widgets, layer,
                   surveillance_video, requestVars, layer_option, chosen_coa,
                   operator_present, warnings, before>>

\* a policy branch: COA 2 suppresses the alert
TriggerAlertSuppressed ==
    /\ At("L212")
    /\ session_state' = IF coa_selected = "COA 2" THEN session_state
                        ELSE Store("alert_triggered", TRUE)
    /\ pc' = "L215"
    /\ UNCHANGED <<dataVars, pageVars, requestVars, localVars, operator_present, historyVars>>

\* line 212
TriggerAlert ==
    /\ At("L212")
    /\ session_state' = Store("alert_triggered", TRUE)
    /\ pc' = "L215"
    /\ UNCHANGED <<dataVars, pageVars, requestVars, localVars, operator_present, historyVars>>

\* line 215
ShowWarning ==
    /\ At("L215")
    /\ countdown_placeholder' = "warning"
    /\ warnings' = Min(warnings + 1, MaxWarnings)
    /\ pc' = "L217"
    /\ UNCHANGED <<dataVars, session_state, coa_radio, layer_radio, widgets, layer,
                   surveillance_video, requestVars, layer_option, chosen_coa,
                   remaining_time, operator_present, ticks, countdown, before>>

\* the reveal does not wait for the button: if alert_triggered: show_surveillance = True
ViewSurveillanceButtonIgnored ==
    /\ At("L217")
    /\ IF alert_triggered
       THEN /\ widgets' = widgets \cup {"view"}
            /\ pc' = "L219"
       ELSE /\ widgets' = widgets \ {"view"}
            /\ pc' = "L221"
    /\ UNCHANGED <<dataVars, session_state, coa_radio, layer_radio, layer,
                   surveillance_video, requestVars, localVars,
                   operator_present, historyVars>>

\* lines 217-218: the button is drawn only if the alert is set
ViewSurveillanceButton ==
    /\ At("L217")
    /\ IF alert_triggered
       THEN /\ widgets' = widgets \cup {"view"}
            /\ pc' = IF reveal_clicked THEN "L219" ELSE "L221"
       ELSE /\ widgets' = widgets \ {"view"}
            /\ pc' = "L221"
    /\ UNCHANGED <<dataVars, session_state, coa_radio, layer_radio, layer,
                   surveillance_video, requestVars, localVars, operator_present,
                   historyVars>>

\* line 219
SetShowSurveillance ==
    /\ At("L219")
    /\ session_state' = Store("show_surveillance", TRUE)
    /\ pc' = "L221"
    /\ UNCHANGED <<dataVars, pageVars, requestVars, localVars, operator_present, historyVars>>

\* lines 221-230: the surveillance video is drawn if the flag is set; the script ends
RenderSurveillance ==
    /\ At("L221")
    /\ surveillance_video' = show_surveillance
    /\ RunEnds
    /\ UNCHANGED <<dataVars, session_state, coa_radio, layer_radio, widgets, layer,
                   operator_present, historyVars>>

----------------------------------------------------------------------------
\* The operator and the rerun machinery

\* a widget change asks for a rerun: clicks of a request still pending are kept,
\* those of the run in progress are not, and the run in progress is abandoned at
\* its next yield point
Request(execute, reveal) ==
    /\ pending' = TRUE
    /\ execute_clicked' = (execute \/ (pending /\ execute_clicked))
    /\ reveal_clicked' = (reveal \/ (pending /\ reveal_clicked))
    /\ reveal_early' = IF pending /\ reveal_clicked THEN reveal_early
                       ELSE reveal /\ ~alert_triggered /\ pc = "L207"
    /\ pc' = IF Running THEN "stopped" ELSE pc
    /\ layer_option' = None
    /\ chosen_coa' = None
    /\ remaining_time' = 0
    /\ countdown_placeholder' = None
    /\ countdown' = IF pc = "L207" THEN "cut" ELSE countdown
    /\ before' = NoBefore
    /\ ticks' = IF Running THEN 0 ELSE ticks
    /\ UNCHANGED warnings

\* the operator presses "Execute Selected COA" (line 144)
ClickExecute ==
    /\ operator_present
    /\ "execute" \in widgets
    /\ Request(TRUE, FALSE)
    /\ toggled' = FALSE
    /\ UNCHANGED <<dataVars, session_state, pageVars, operator_present>>

\* the operator presses a "View Surveillance Video" button that is on the page (line 218)
ClickViewSurveillance ==
    /\ operator_present
    /\ "view" \in widgets
    /\ Request(FALSE, TRUE)
    /\ toggled' = FALSE
    /\ UNCHANGED <<dataVars, session_state, pageVars, operator_present>>

\* the operator picks another COA in the radio (line 141)
SelectCOA(coa) ==
    /\ operator_present
    /\ "coa" \in widgets
    /\ coa # coa_radio
    /\ coa_radio' = coa
    /\ Request(FALSE, FALSE)
    /\ toggled' = FALSE
    /\ UNCHANGED <<dataVars, session_state, layer_radio, widgets, layer,
                   surveillance_video, operator_present>>

\* the operator picks the other map layer (line 79)
SelectLayer(option) ==
    /\ operator_present
    /\ "layer" \in widgets
    /\ option # layer_radio
    /\ layer_radio' = option
    /\ Request(FALSE, FALSE)
    /\ toggled' = (~pending \/ toggled)
    /\ UNCHANGED <<dataVars, session_state, coa_radio, widgets, layer,
                   surveillance_video, operator_present>>

\* the pending request is served: the script starts from the top with its clicks
Rerun ==
    /\ pending
    /\ pending' = FALSE
    /\ pc' = "L19"
    /\ UNCHANGED <<dataVars, session_state, pageVars, execute_clicked, reveal_clicked,
                   toggled, reveal_early, localVars, operator_present, historyVars>>

\* the operator stops sending input
OperatorLeaves ==
    /\ operator_present
    /\ operator_present' = FALSE
    /\ UNCHANGED <<dataVars, session_state, pageVars, requestVars, pc, localVars, historyVars>>

ScriptStep ==
    \/ LoadData
    \/ SessionStateInit
    \/ MapLayer
    \/ ChooseCOA
    \/ ExecuteButton
    \/ SetCoaSelected
    \/ ResetAlert
    \/ ResetSurveillance
    \/ ExecSuccess
    \/ MonitoringGate
    \/ CountdownTick
    \/ TriggerAlert
    \/ ShowWarning
    \/ ViewSurveillanceButton
    \/ SetShowSurveillance
    \/ RenderSurveillance
    \/ Rerun

OperatorInput ==
    \/ ClickExecute
    \/ ClickViewSurveillance
    \/ \E coa \in COAs : SelectCOA(coa)
    \/ \E option \in LayerOptions : SelectLayer(option)

Next ==
    \/ ScriptStep
    \/ OperatorInput
    \/ OperatorLeaves

Spec == Init /\ [][Next]_vars

\* the script thread keeps running: a run in progress takes its next step and a
\* pending request is served; nothing obliges the operator to act
FairSpec == Spec /\ WF_vars(ScriptStep)

----------------------------------------------------------------------------
\* The data path on its own: a session that may start with any file, in which the file
\* on disk may be replaced while the program runs and the operator only toggles the
\* map layer

\* drone_anomaly_actions.csv (line 16) is rewritten by something outside the program
SourceChanges ==
    /\ csv' \in SourceVersions \ {csv}
    /\ UNCHANGED <<cache, map_data, session_state, pageVars, requestVars, pc, localVars,
                   operator_present, historyVars>>

DataInit == InitWith(CsvFiles)

DataNext ==
    \/ LoadData
    \/ SessionStateInit
    \/ MapLayer
    \/ ChooseCOA
    \/ ExecuteButton
    \/ MonitoringGate
    \/ Rerun
    \/ \E option \in LayerOptions : SelectLayer(option)
    \/ SourceChanges

DataSpec == DataInit /\ [][DataNext]_vars

----------------------------------------------------------------------------
\* C1: executeCOA(id) is a hard reset: right after the handler of "Execute Selected
\* COA" has run (lines 145-147 done, line 148 next), selectedCOA is the id chosen and
\* alertTriggered and surveillanceRevealed are false, whatever the state before.
C1_ExecuteCOAHardReset ==
    pc = "L148" =>
        /\ chosen_coa \in COAs
        /\ coa_selected = chosen_coa
        /\ ~alert_triggered
        /\ ~show_surveillance

\* the handler has just reset a pass that was in SurveillanceRevealed under another COA
C1_Witness ==
    /\ pc = "L148"
    /\ before[1] \in COAs \ {coa_selected}
    /\ before[2]
    /\ before[3]

\* C2: alertTriggered = true only with a COA selected, and alertTriggered changes from
\* false to true only at line 212, after the 10 ticks of a countdown that ran to its end
\* since the last executeCOA, with no operator input outstanding.
C2_AlertOnlyAfterCountdown ==
    [][/\ alert_triggered' => coa_selected' # None
       /\ (~alert_triggered /\ alert_triggered') =>
              /\ pc = "L212"
              /\ ticks = CountdownTicks
              /\ countdown = "done"
              /\ ~pending]_vars

\* the alert has just been raised for the first time in a pass
C2_Witness ==
    /\ pc = "L215"
    /\ alert_triggered
    /\ warnings = 0
    /\ ticks = CountdownTicks

\* C3 (as claimed): in every reachable state, those inside the executeCOA reset
\* included, surveillanceRevealed = true implies alertTriggered = true.
C3_RevealedImpliesAlert == show_surveillance => alert_triggered

\* the lines at which surveillanceRevealed may be true with alertTriggered false: from
\* the start of a run to the end of its countdown, the inside of the reset included
BeforeAlert ==
    {"stopped", "L19", "L45", "L79", "L141", "L144", "L145", "L146", "L147",
     "L195", "L207", "L212"}

\* C3 (amended): surveillanceRevealed changes from false to true only while
\* alertTriggered is true, and surveillanceRevealed = true implies alertTriggered = true
\* at rest, right after a completed reset and from the end of a countdown to the end of
\* the run.
C3_RevealedImpliesAlertOutsideReset ==
    [][/\ (~show_surveillance /\ show_surveillance') => (alert_triggered /\ alert_triggered')
       /\ (show_surveillance' /\ ~alert_triggered') => pc' \in BeforeAlert]_vars

\* the surveillance is revealed and the program is at rest
C3_Witness ==
    /\ Quiescent
    /\ show_surveillance
    /\ alert_triggered

\* C4: once a COA is selected and the operator sends no further input, the countdown
\* runs out and alertTriggered becomes true, for every COA id, data and display mode.
C4_AlertEventuallyFires ==
    (coa_selected # None /\ ~operator_present) ~> alert_triggered

\* the alert was raised for COA 3 in Scatterplot mode after the operator had left
C4_Witness ==
    /\ ~operator_present
    /\ pc = "L215"
    /\ alert_triggered
    /\ coa_selected = "COA 3"
    /\ layer_option = "Scatterplot"

\* C5 (as claimed): between one executeCOA and the next the warning is drawn once.
C5_AlertOncePerPass == warnings <= 1

\* C6: surveillanceRevealed becomes true only at line 219, in a run that carries the
\* operator's View click, with alertTriggered true and selectedCOA and alertTriggered
\* unchanged; line 219 always sets it; AlertTriggered is left only by that line or by
\* the executeCOA reset; and a View click made in AlertTriggered that no further input
\* follows does reveal the surveillance.
C6_RevealOnlyByOperator ==
    /\ [][/\ (~show_surveillance /\ show_surveillance') =>
                /\ pc = "L219"
                /\ reveal_clicked
                /\ alert_triggered
          /\ (pc = "L219" /\ pc' = "L221") =>
                /\ show_surveillance'
                /\ coa_selected' = coa_selected
                /\ alert_triggered' = alert_triggered
          /\ (alert_triggered /\ ~show_surveillance /\ WorkflowState' # WorkflowState) =>
                pc \in {"L219", "L145", "L146"}]_vars
    /\ (reveal_clicked /\ alert_triggered /\ ~operator_present) ~> show_surveillance

\* line 219 has just revealed the surveillance for a click made in AlertTriggered
C6_Witness ==
    /\ pc = "L221"
    /\ reveal_clicked
    /\ ~reveal_early
    /\ show_surveillance
    /\ alert_triggered
    /\ ~operator_present

\* C7 (as claimed): a View click that arrives during the countdown, while
\* alertTriggered is false (the button is left over from the pass before), is a no-op
\* and is not remembered: it never makes surveillanceRevealed true later.
C7_EarlyRevealIgnored ==
    [][(~show_surveillance /\ show_surveillance') => ~reveal_early]_vars

C9_RevealedIsTerminal ==
    [][show_surveillance =>
          /\ ~(pc = "L195" /\ pc' = "L207")
          /\ ~(pc = "L215" /\ pc' = "L217")]_vars

\* C10 (as claimed): a record whose threat level is not High, Medium or Low gets no
\* weight and no color and is left out of the layer.
C10_UnrecognizedRejected ==
    \A i \in DOMAIN layer.data : layer.data[i].threat_level \in ThreatLevels

\* the levels of the records load_drone_anomalies returned
Loaded == cache.value

\* C11: for records whose threat levels are all High, Medium or Low, the heatmap layer
\* drawn carries one weight per record and the scatter layer one color per record, in
\* the order of the records, High = 3 / red, Medium = 2 / orange, Low = 1 / green;
\* [High, Low, Medium] gives weights [3, 1, 2] and colors [red, green, orange].
C11_EncodingAligned ==
    (layer.type # "none" /\ \A i \in DOMAIN Loaded : Loaded[i] \in ThreatLevels) =>
        /\ Len(layer.data) = Len(Loaded)
        /\ layer.type = "HeatmapLayer" =>
              /\ Len(layer.get_weight) = Len(Loaded)
              /\ \A i \in DOMAIN Loaded :
                    /\ ~layer.get_weight[i].nan
                    /\ layer.get_weight[i].value =
                          CASE Loaded[i] = "High" -> 3
                            [] Loaded[i] = "Medium" -> 2
                            [] Loaded[i] = "Low" -> 1
              /\ Loaded = <<"High", "Low", "Medium">> =>
                    layer.get_weight = <<Num(3), Num(1), Num(2)>>
        /\ layer.type = "ScatterplotLayer" =>
              /\ Len(layer.get_color) = Len(Loaded)
              /\ \A i \in DOMAIN Loaded :
                    layer.get_color[i] =
                          CASE Loaded[i] = "High" -> "255, 0, 0, 160"
                            [] Loaded[i] = "Medium" -> "255, 165, 0, 160"
                            [] Loaded[i] = "Low" -> "0, 128, 0, 160"
              /\ Loaded = <<"High", "Low", "Medium">> =>
                    layer.get_color =
                        <<"255, 0, 0, 160", "0, 128, 0, 160", "255, 165, 0, 160">>

\* the scatter layer of [High, Low, Medium] is drawn, after the heatmap layer was
C11_Witness ==
    /\ Loaded = <<"High", "Low", "Medium">>
    /\ layer.type = "ScatterplotLayer"
    /\ layer.get_color = <<"255, 0, 0, 160", "0, 128, 0, 160", "255, 165, 0, 160">>
    /\ pc = "idle"

\* C12: no load returns more than 100 records, and a load that reads the file returns
\* its first min(100, length) rows, in the order of the file, whatever its length.
C12_LoadCappedPrefix ==
    [][(pc = "L19" /\ pc' = "L45") =>
          /\ Len(map_data') <= HeadRows
          /\ ~cache.hit =>
                /\ Len(Loaded') = Min(HeadRows, Len(csv))
                /\ \A i \in 1..Len(Loaded') : Loaded'[i] = csv[i]
                /\ Len(map_data') = Len(Loaded')
                /\ \A i \in 1..Len(map_data') : map_data'[i].threat_level = csv[i]]_vars

\* a file longer than the cap has just been loaded, cut to the cap
C12_Witness ==
    /\ pc = "L45"
    /\ widgets = {}
    /\ Len(csv) = HeadRows + MaxRows
    /\ Len(Loaded) = HeadRows
    /\ Len(map_data) = HeadRows

\* C13: after the first load, every later load of the session, in any later run and
\* whatever has become of the file, returns the records of the first load and leaves
\* the stored value alone (the file is not read again).
C13_CacheStable ==
    [][cache.hit =>
          /\ cache' = cache
          /\ (pc = "L19" /\ pc' = "L45") =>
                /\ Len(map_data') = Len(Loaded)
                /\ \A i \in 1..Len(Loaded) : map_data'[i].threat_level = Loaded[i]]_vars

\* a later run has just loaded, from a file that no longer reads as the first load did
C13_Witness ==
    /\ pc = "L45"
    /\ "layer" \in widgets
    /\ cache.hit
    /\ head(csv) # Loaded
    /\ map_data = MapData(Loaded)

\* C14 (as claimed): a toggle of the map layer leaves selectedCOA, alertTriggered and
\* surveillanceRevealed unchanged and aborts no countdown, and the run it asks for
\* changes none of the three and starts no countdown.
C14_LayerToggleIndependent ==
    [][/\ layer_radio' # layer_radio =>
              /\ WorkflowState' = WorkflowState
              /\ ~(pc = "L207" /\ pc' = "stopped")
       /\ toggled =>
              /\ WorkflowState' = WorkflowState
              /\ ~(pc = "L195" /\ pc' = "L207")]_vars

\* C15: the run that handles executeCOA goes from the handler straight into a countdown
\* of 10 ticks; the k-th tick runs with 10 - k + 1 ticks remaining, shows the status
\* and leaves one tick fewer; alertTriggered is false during the ticks of that run; and
\* alertTriggered becomes true only after the 10th tick.
C15_TenTickCountdown ==
    [][/\ (execute_clicked /\ pc = "L148") => pc' \in {"L148", "L195", "stopped"}
       /\ (execute_clicked /\ pc = "L195" /\ pc' \notin {"L195", "stopped"}) =>
              /\ pc' = "L207"
              /\ remaining_time' = 10
              /\ ticks' = 0
              /\ ~alert_triggered'
       /\ (pc = "L207" /\ remaining_time' # remaining_time /\ pc' # "stopped") =>
              /\ remaining_time \in 1..10
              /\ remaining_time = 10 - ticks
              /\ remaining_time' = remaining_time - 1
              /\ ticks' = ticks + 1
              /\ countdown_placeholder' = "info"
              /\ pc' = IF remaining_time = 1 THEN "L212" ELSE "L207"
              /\ execute_clicked => (~alert_triggered /\ ~alert_triggered')
       /\ (~alert_triggered /\ alert_triggered') =>
              /\ pc = "L212"
              /\ ticks = 10
              /\ remaining_time = 0]_vars

\* the run that handled executeCOA has made its 10th tick, the alert still unset
C15_Witness ==
    /\ pc = "L212"
    /\ execute_clicked
    /\ ticks = 10
    /\ countdown_placeholder = "info"
    /\ ~alert_triggered

\* C16: whenever a run has finished and the program waits for the operator,
\* alertTriggered = true if and only if a COA is selected.
C16_AlertIffSelectedAtRest ==
    Quiescent => (alert_triggered <=> coa_selected # None)

\* at rest in AlertTriggered, the surveillance not revealed
C16_Witness ==
    /\ Quiescent
    /\ coa_selected # None
    /\ alert_triggered
    /\ ~show_surveillance

\* the positions of a run before the 10th tick of its countdown is done
BeforeTenthTick ==
    {"L19", "L45", "L79", "L141", "L144", "L145", "L146", "L147", "L148", "L195", "L207"}

\* C17: a run with a COA selected evaluates the View button only after the 10 ticks of
\* its own countdown; surveillanceRevealed becomes true only in a run that carries the
\* View click and has counted its 10 ticks; and another operator input that interrupts
\* such a run before its 10th tick drops the click, surveillanceRevealed staying false.
C17_RevealAfterFullCountdown ==
    [][/\ pc' \in {"L217", "L219"} =>
              /\ ticks' = CountdownTicks
              /\ countdown' = "done"
       /\ (~show_surveillance /\ show_surveillance') =>
              /\ reveal_clicked
              /\ ticks = CountdownTicks
              /\ countdown = "done"
       /\ (/\ pc \in BeforeTenthTick
           /\ reveal_clicked
           /\ ~show_surveillance
           /\ pc' = "stopped"
           /\ (execute_clicked' \/ layer_radio' # layer_radio \/ coa_radio' # coa_radio)) =>
              /\ ~reveal_clicked'
              /\ ~show_surveillance']_vars

\* a View click made in AlertTriggered is about to reveal, its run's 10 ticks counted
C17_Witness ==
    /\ pc = "L219"
    /\ reveal_clicked
    /\ ~reveal_early
    /\ ~execute_clicked
    /\ ~show_surveillance
    /\ ticks = CountdownTicks

\* C18 (as claimed): the surveillance video is drawn only with surveillanceRevealed and
\* alertTriggered true and a COA selected, and never by the run that handles an
\* executeCOA.
C18_VideoOnlyWhenRevealed ==
    [][(pc = "L221" /\ pc' = "idle" /\ surveillance_video') =>
          /\ show_surveillance
          /\ alert_triggered
          /\ coa_selected # None
          /\ ~execute_clicked]_vars

\* C19: selectedCOA is unset or one of COA 1, COA 2, COA 3; once set it is never unset;
\* and it changes only at line 145, in the handler of an Execute click, to the COA
\* chosen in the radio.
C19_NeverBackToIdle ==
    /\ [](coa_selected \in COAs \cup {None})
    /\ [][/\ coa_selected # None => coa_selected' # None
          /\ coa_selected' # coa_selected =>
                /\ pc = "L145"
                /\ execute_clicked
                /\ coa_selected' = chosen_coa]_vars

\* line 145 has just replaced COA 1 by COA 3
C19_Witness ==
    /\ pc = "L146"
    /\ before[1] = "COA 1"
    /\ coa_selected = "COA 3"

====
